---- MODULE Spec2Model ----
(***************************************************************************)
(* Model of index.js: the ResizeStyle style-token parser, its cache-key    *)
(* and geometry methods, and the async.waterfall request pipeline of       *)
(* exports.handler against the two S3 buckets and ImageMagick.             *)
(*                                                                         *)
(* JavaScript strings are sequences of one-character strings; the value    *)
(* undefined is <<"undefined">> and a JavaScript number is <<"number">>    *)
(* followed by its decimal digits, so every JavaScript value is a sequence *)
(* whose kind is told by its first element.  A Buffer is a sequence of     *)
(* bytes, empty while unassigned.                                          *)
(***************************************************************************)
EXTENDS Integers, Sequences, FiniteSets, TLC

VARIABLES
    filename,       \* request[0]
    params,         \* request[1] || ''
    resizeStyle,    \* the ResizeStyle object of the invocation
    cachePath,      \* filename + '_' + resizeStyle.getIndexName()
    pc,             \* the external call the invocation is waiting for
    body,           \* the body flowing down the waterfall
    contentType,    \* the content type flowing down the waterfall
    geometry,       \* [resized_w, resized_h] computed in convert
    output,         \* the resized image convert holds before writing it
    cache,          \* cache bucket: key -> [Body, ContentType]
    cacheBefore,    \* the cache bucket when the invocation started
    origin,         \* origin bucket: key -> [Body, ContentType, deleted]
    fs,             \* scratch directory: path -> content
    ops,            \* external calls made by the current invocation, in order
    outcome,        \* what reached the waterfall's final callback
    responses,      \* payloads handed to the Lambda callback in this invocation
    served,         \* history: earlier runs that ended fresh or pass-through
    runs,           \* invocations started so far
    call,           \* last ResizeStyle method call: [method, args, ret]
    waiting         \* the other invocation in flight, its callback pending

vars == <<filename, params, resizeStyle, cachePath, pc, body, contentType,
          geometry, output, cache, cacheBefore, origin, fs, ops, outcome,
          responses, served, runs, call, waiting>>

(***************************************************************************)
(* JavaScript values                                                       *)
(***************************************************************************)
Undefined == <<"undefined">>

IsUndefined(v) == Len(v) = 1 /\ v[1] = "undefined"

UpperChars == <<"A","B","C","D","E","F","G","H","I","J","K","L","M",
                "N","O","P","Q","R","S","T","U","V","W","X","Y","Z">>

LowerChars == <<"a","b","c","d","e","f","g","h","i","j","k","l","m",
                "n","o","p","q","r","s","t","u","v","w","x","y","z">>

DigitChars == <<"0","1","2","3","4","5","6","7","8","9">>

IsDigit(c) == \E i \in 1..10 : DigitChars[i] = c

DigitValue(c) == (CHOOSE i \in 1..10 : DigitChars[i] = c) - 1

IsLowerHex(c) == IsDigit(c) \/ c \in {"a","b","c","d","e","f"}

ToLowerChar(c) ==
    IF \E i \in 1..26 : UpperChars[i] = c
    THEN LowerChars[CHOOSE i \in 1..26 : UpperChars[i] = c]
    ELSE c

ToUpperChar(c) ==
    IF \E i \in 1..26 : LowerChars[i] = c
    THEN UpperChars[CHOOSE i \in 1..26 : LowerChars[i] = c]
    ELSE c

\* String.prototype.toLowerCase
toLowerCase(s) == [i \in 1..Len(s) |-> ToLowerChar(s[i])]

RECURSIVE Decimal(_)
\* the decimal digits of a non-negative integer
Decimal(n) ==
    IF n < 10 THEN <<DigitChars[n + 1]>>
    ELSE Append(Decimal(n \div 10), DigitChars[(n % 10) + 1])

JSNumber(n) == <<"number">> \o Decimal(n)

IsNumber(v) == Len(v) >= 2 /\ v[1] = "number"

\* ToString, as RegExp.prototype.test and + apply it to their operand
JSToString(v) ==
    IF IsUndefined(v) THEN <<"u","n","d","e","f","i","n","e","d">>
    ELSE IF IsNumber(v) THEN Tail(v)
    ELSE v

RECURSIVE DigitsValue(_)
\* the number a string of decimal digits converts to
DigitsValue(s) ==
    IF Len(s) = 0 THEN 0
    ELSE 10 * DigitsValue(SubSeq(s, 1, Len(s) - 1)) + DigitValue(s[Len(s)])

\* ToNumber, as < and > apply it when one operand is a number
ToNumber(v) == IF IsNumber(v) THEN DigitsValue(Tail(v)) ELSE DigitsValue(v)

\* ToBoolean: undefined, 0 and '' are falsy, every other value is truthy
Truthy(v) ==
    IF IsUndefined(v) THEN FALSE
    ELSE IF IsNumber(v) THEN DigitsValue(Tail(v)) # 0
    ELSE Len(v) > 0

\* a || b
Or(a, b) == IF Truthy(a) THEN a ELSE b

RECURSIVE SplitFrom(_, _, _, _)
SplitFrom(s, sep, i, cur) ==
    IF i > Len(s) THEN <<cur>>
    ELSE IF s[i] = sep THEN <<cur>> \o SplitFrom(s, sep, i + 1, <<>>)
    ELSE SplitFrom(s, sep, i + 1, Append(cur, s[i]))

\* String.prototype.split with a one-character separator
split(s, sep) == SplitFrom(s, sep, 1, <<>>)

\* arr[i] of a JavaScript array, 0-based; undefined past the end
At(arr, i) == IF i + 1 <= Len(arr) THEN arr[i + 1] ELSE Undefined

AllDigits(s) == \A i \in 1..Len(s) : IsDigit(s[i])

(***************************************************************************)
(* The regular expressions of the ResizeStyle constructor                  *)
(***************************************************************************)
Sfit == <<"f","i","t">>
Sfill == <<"f","i","l","l">>
Sjpg == <<"j","p","g">>
Spng == <<"p","n","g">>
Sgif == <<"g","i","f">>
Snone == <<"n","o","n","e">>
Sfull == <<"f","u","l","l">>

\* /^fi(t|ll)$/i
TestCover(v) ==
    LET s == toLowerCase(JSToString(v)) IN s = Sfit \/ s = Sfill

\* /^([0-9]+x[0-9]*|[0-9]*x[0-9]+)$/
TestCanvas(v) ==
    LET s == JSToString(v) IN
    \E i \in 1..Len(s) :
        /\ s[i] = "x"
        /\ AllDigits(SubSeq(s, 1, i - 1))
        /\ AllDigits(SubSeq(s, i + 1, Len(s)))
        /\ (i > 1 \/ i < Len(s))

\* /^(jpg|png|gif|)$/i
TestFormat(v) ==
    LET s == toLowerCase(JSToString(v)) IN s \in {Sjpg, Spng, Sgif, <<>>}

\* /^([0-9a-f]{3}|[0-9a-f]{6})$/
TestColor(v) ==
    LET s == JSToString(v) IN
    /\ Len(s) \in {3, 6}
    /\ \A i \in 1..Len(s) : IsLowerHex(s[i])

(***************************************************************************)
(* class ResizeStyle                                                       *)
(***************************************************************************)
separator == "."

maxDimension == 2048

\* the object before the constructor assigns anything but enable
BlankStyle(enable) ==
    [enable |-> enable, cover |-> Undefined,
     canvas_w_string |-> Undefined, canvas_h_string |-> Undefined,
     canvas_w |-> Undefined, canvas_h |-> Undefined,
     format |-> Undefined, background |-> Undefined]

\* the format the constructor stores for arr[2]
FormatOf(seg) == IF TestFormat(seg) THEN seg ELSE Sjpg

\* the background the constructor stores for arr[3]
BackgroundOf(seg) == IF TestColor(seg) THEN seg ELSE Snone

\* TooLarge with the height test dropped
TooLargeWidthOnly(canvas_w, canvas_h) == ToNumber(canvas_w) > maxDimension

\* whether the constructor rejects the canvas for its size
TooLarge(canvas_w, canvas_h) ==
    ToNumber(canvas_w) > maxDimension \/ ToNumber(canvas_h) > maxDimension

\* new ResizeStyle(params), params a string
ResizeStyle(p) ==
    LET arr == split(p, separator) IN
    IF ~TestCover(At(arr, 0)) THEN BlankStyle(FALSE)
    ELSE IF ~TestCanvas(At(arr, 1))
    THEN [BlankStyle(FALSE) EXCEPT !.cover = At(arr, 0)]
    ELSE
        LET canvas == split(At(arr, 1), "x")
            ws == Or(At(canvas, 0), <<>>)
            hs == Or(At(canvas, 1), <<>>)
            w == Or(ws, JSNumber(0))
            h == Or(hs, JSNumber(0))
            sized == [BlankStyle(TRUE) EXCEPT
                        !.cover = At(arr, 0),
                        !.canvas_w_string = ws, !.canvas_h_string = hs,
                        !.canvas_w = w, !.canvas_h = h]
        IN
        IF TooLarge(w, h) THEN [sized EXCEPT !.enable = FALSE]
        ELSE [sized EXCEPT !.format = FormatOf(At(arr, 2)),
                           !.background = BackgroundOf(At(arr, 3))]

isValid(rs) == rs.enable

\* isKeepAspect taking a dimension of 0 for an absent one
isKeepAspectNumeric(rs) == ToNumber(rs.canvas_w) = 0 \/ ToNumber(rs.canvas_h) = 0

isKeepAspect(rs) == ~Truthy(rs.canvas_w) \/ ~Truthy(rs.canvas_h)

\* IndexNameRaw with the resolved numbers in place of the literals
IndexNameNumeric(rs) ==
    IF isValid(rs)
    THEN rs.cover \o <<separator>> \o JSToString(rs.canvas_w) \o <<"x">>
         \o JSToString(rs.canvas_h) \o <<separator>> \o rs.format
         \o <<separator>> \o rs.background
    ELSE Sfull

\* the name getIndexName builds before lowercasing it
IndexNameRaw(rs) ==
    IF isValid(rs)
    THEN rs.cover \o <<separator>> \o rs.canvas_w_string \o <<"x">>
         \o rs.canvas_h_string \o <<separator>> \o rs.format
         \o <<separator>> \o rs.background
    ELSE Sfull

\* getIndexName without the final toLowerCase
IndexNameNoLower(rs) == IndexNameRaw(rs)

getIndexName(rs) == toLowerCase(IndexNameRaw(rs))

getWidth(rs) == rs.canvas_w

getHeight(rs) == rs.canvas_h

getFormat(rs) == rs.format

getContentType(rs) ==
    IF rs.format = Sjpg
    THEN <<"i","m","a","g","e","/","j","p","e","g">>
    ELSE <<"i","m","a","g","e","/">> \o JSToString(rs.format)

getColor(rs) ==
    IF rs.background = Snone THEN rs.background
    ELSE <<"#">> \o rs.background

\* this.cover === 'fit'
IsFit(rs) == rs.cover = Sfit

\* a < b with a a number and b a number or a numeric string
Less(a, b) == ToNumber(a) < ToNumber(b)

\* getResizeData returning the style's dimension whatever the original's size
getResizeDataUnclamped(rs, original_w, original_h) ==
    IF Less(original_w, original_h)
    THEN IF IsFit(rs) THEN <<JSNumber(0), getHeight(rs)>>
         ELSE <<getWidth(rs), JSNumber(0)>>
    ELSE IF IsFit(rs) THEN <<getWidth(rs), JSNumber(0)>>
         ELSE <<JSNumber(0), getHeight(rs)>>

getResizeData(rs, original_w, original_h) ==
    IF Less(original_w, original_h)
    THEN IF IsFit(rs)
         THEN <<JSNumber(0),
                IF Less(original_h, getHeight(rs)) THEN original_h
                ELSE getHeight(rs)>>
         ELSE <<IF Less(original_w, getWidth(rs)) THEN original_w
                ELSE getWidth(rs),
                JSNumber(0)>>
    ELSE IF IsFit(rs)
         THEN <<IF Less(original_w, getWidth(rs)) THEN original_w
                ELSE getWidth(rs),
                JSNumber(0)>>
         ELSE <<JSNumber(0),
                IF Less(original_h, getHeight(rs)) THEN original_h
                ELSE getHeight(rs)>>

(***************************************************************************)
(* Style tokens the checks draw from                                       *)
(***************************************************************************)
MaxSrc == 4

Join(segs) ==
    LET J[i \in 1..Len(segs)] ==
            IF i = 1 THEN segs[1] ELSE J[i - 1] \o <<separator>> \o segs[i]
    IN IF Len(segs) = 0 THEN <<>> ELSE J[Len(segs)]

CoverSegs ==
    {Sfit, <<"F","I","T">>, Sfill, <<"F","i","l","l">>, <<"f","i">>}

DimLits ==
    {<<>>, <<"0">>, <<"2">>, <<"3">>, <<"2","0","4","8">>, <<"2","0","4","9">>}

CanvasSegs ==
    {w \o <<"x">> \o h : w \in DimLits, h \in DimLits}
        \cup {<<"2">>, <<"2","x","y">>}

FormatSegs == {<<>>, Sjpg, <<"P","N","G">>, Sgif, <<"b","m","p">>}

ColorSegs == {<<>>, <<"f","f","f">>, <<"F","F","F">>,
              <<"0","0","f","f","0","0">>}

Tokens ==
    {<<>>}
        \cup {Join(<<c>>) : c \in CoverSegs}
        \cup {Join(<<c, d>>) : c \in CoverSegs, d \in CanvasSegs}
        \cup {Join(<<c, d, f>>) :
                c \in CoverSegs, d \in CanvasSegs, f \in FormatSegs}
        \cup {Join(<<c, d, f, b>>) :
                c \in CoverSegs, d \in CanvasSegs, f \in FormatSegs,
                b \in ColorSegs}

SrcSizes == 1..MaxSrc

(***************************************************************************)
(* StyleSpec: a ResizeStyle object and the calls of its methods            *)
(***************************************************************************)
NoCall == [method |-> "none", args |-> <<>>, ret |-> <<>>]

\* the closure state of an invocation that has not started
IdleContext ==
    [filename |-> <<>>, params |-> <<>>, resizeStyle |-> BlankStyle(FALSE),
     cachePath |-> <<>>, pc |-> "idle", body |-> <<>>,
     contentType |-> Undefined, geometry |-> <<>>, output |-> <<>>,
     ops |-> <<>>, outcome |-> "none", responses |-> <<>>,
     cacheBefore |-> <<>>]

pipelineVars == <<filename, cachePath, pc, body, contentType, geometry, output,
                  cache, cacheBefore, origin, fs, ops, outcome, responses,
                  served, runs, waiting>>

StyleInit ==
    /\ params \in Tokens
    /\ resizeStyle = ResizeStyle(params)
    /\ call = NoCall
    /\ filename = <<>>
    /\ cachePath = <<>>
    /\ pc = "style"
    /\ body = <<>>
    /\ contentType = Undefined
    /\ geometry = <<>>
    /\ output = <<>>
    /\ cache = <<>>
    /\ cacheBefore = <<>>
    /\ origin = <<>>
    /\ fs = <<>>
    /\ ops = <<>>
    /\ outcome = "none"
    /\ responses = <<>>
    /\ served = {}
    /\ runs = 0
    /\ waiting = IdleContext

Returns(method, args, ret) ==
    /\ pc = "style"
    /\ call' = [method |-> method, args |-> args, ret |-> ret]
    /\ UNCHANGED <<params, resizeStyle>>
    /\ UNCHANGED pipelineVars

CallIsValid == Returns("isValid", <<>>, isValid(resizeStyle))

CallIsKeepAspect ==
    /\ isValid(resizeStyle)
    /\ Returns("isKeepAspect", <<>>, isKeepAspect(resizeStyle))

CallGetIndexName == Returns("getIndexName", <<>>, getIndexName(resizeStyle))

CallGetFormat ==
    /\ isValid(resizeStyle)
    /\ Returns("getFormat", <<>>, getFormat(resizeStyle))

CallGetContentType ==
    /\ isValid(resizeStyle)
    /\ Returns("getContentType", <<>>, getContentType(resizeStyle))

CallGetResizeData ==
    /\ isValid(resizeStyle)
    /\ \E w \in SrcSizes, h \in SrcSizes :
        Returns("getResizeData", <<w, h>>,
                getResizeData(resizeStyle, JSNumber(w), JSNumber(h)))

StyleNext ==
    \/ CallIsValid
    \/ CallIsKeepAspect
    \/ CallGetIndexName
    \/ CallGetFormat
    \/ CallGetContentType
    \/ CallGetResizeData

StyleSpec == StyleInit /\ [][StyleNext]_vars

(***************************************************************************)
(* Buffers, payloads and the objects handed to the final callback          *)
(***************************************************************************)
B64Chars == UpperChars \o LowerChars \o DigitChars \o <<"+", "/">>

RECURSIVE Base64(_)
\* Buffer.prototype.toString('base64') of a sequence of bytes
Base64(b) ==
    IF Len(b) = 0 THEN <<>>
    ELSE IF Len(b) = 1 THEN
        <<B64Chars[(b[1] \div 4) + 1], B64Chars[((b[1] % 4) * 16) + 1],
          "=", "=">>
    ELSE IF Len(b) = 2 THEN
        <<B64Chars[(b[1] \div 4) + 1],
          B64Chars[((b[1] % 4) * 16) + (b[2] \div 16) + 1],
          B64Chars[((b[2] % 16) * 4) + 1], "=">>
    ELSE
        <<B64Chars[(b[1] \div 4) + 1],
          B64Chars[((b[1] % 4) * 16) + (b[2] \div 16) + 1],
          B64Chars[((b[2] % 16) * 4) + (b[3] \div 64) + 1],
          B64Chars[(b[3] % 64) + 1]>> \o Base64(SubSeq(b, 4, Len(b)))

\* new Payload() with the status, header and body the wrappers assign
Payload(b, ct) ==
    [statusCode |-> 200, headers |-> [ContentType |-> ct],
     isBase64Encoded |-> TRUE, body |-> Base64(b)]

\* ExistCacheException with the content type header left unset
ExistCacheExceptionNoType(b, ct) ==
    [type |-> "ExistCacheException", payload |-> Payload(b, Undefined)]

ExistCacheException(b, ct) ==
    [type |-> "ExistCacheException", payload |-> Payload(b, ct)]

CouldNotResizeException(b, ct) ==
    [type |-> "CouldNotResizeException", payload |-> Payload(b, ct)]

Magicked(b, ct) == [type |-> "Magicked", payload |-> Payload(b, ct)]

NotFoundException == [type |-> "NotFoundException", payload |-> Undefined]

DeletedException == [type |-> "DeletedException", payload |-> Undefined]

UploadFailedException ==
    [type |-> "UploadFailedException", payload |-> Undefined]

ResizeFailedException ==
    [type |-> "ResizeFailedException", payload |-> Undefined]

ConvertFailedException ==
    [type |-> "ConvertFailedException", payload |-> Undefined]

(***************************************************************************)
(* Configuration and the objects of the environment                        *)
(***************************************************************************)
MaxRuns == 2

\* process.env.TEMP_DIR, KEY_ORIGINAL, KEY_CACHE
TempDir == <<"/", "t", "/">>
KeyOriginal == <<"o", "/">>
KeyCache == <<"c", "/">>

Simage == <<"i","m","a","g","e","/">>

\* the image stored in the origin bucket
OriginBody == <<255, 216>>
OriginType == Simage \o <<"b","m","p">>

\* the image im.resize writes to stdout: the pixels are not modelled, the
\* image is told apart by its format (the first byte of a png, gif or jpeg
\* file, the original's when no format is asked for) and by the width and
\* height asked for, two bytes each
Resized(srcData, width, height, format) ==
    LET f == toLowerCase(format)
        w == ToNumber(width)
        h == ToNumber(height)
    IN <<IF f = Spng THEN 137 ELSE IF f = Sgif THEN 71
         ELSE IF f = Sjpg THEN 255 ELSE srcData[1],
         (w \div 256) % 256, w % 256, (h \div 256) % 256, h % 256>>

CanvasBody == <<0>>

Filenames == {<<"a">>, <<"b">>}

PipelineTokens ==
    {<<>>,
     Join(<<Sfit, <<"2", "x">> >>),
     Join(<<Sfill, <<"2", "x", "3">>, Spng, <<"f","f","f">> >>),
     Join(<<<<"F","I","L","L">>, <<"2", "x", "3">>, Spng, <<"f","f","f">> >>)}

\* event.pathParameters.filename
Paths == Filenames \cup {f \o <<"/">> \o t : f \in Filenames, t \in PipelineTokens}

\* Metadata.deleted of an origin object: unset, or the flag
DeletedFlags == {Undefined, <<"t","r","u","e">>}

OriginObjects ==
    {[Body |-> OriginBody, ContentType |-> OriginType,
      Metadata |-> [deleted |-> d]] : d \in DeletedFlags}

\* the origin bucket holds image a, possibly flagged deleted, and may hold b
OriginStates ==
    {[k \in {KeyOriginal \o <<"a">>} |-> o] : o \in OriginObjects}
        \cup {[k \in {KeyOriginal \o f : f \in Filenames} |->
                    IF k = KeyOriginal \o <<"a">> THEN o
                    ELSE [Body |-> OriginBody, ContentType |-> OriginType,
                          Metadata |-> [deleted |-> Undefined]]] :
                o \in OriginObjects}

\* the image -composite makes of a canvas and an image laid over it: the
\* pixels are not modelled, the result is told apart by what went into it
Composed(canvas, image) == canvas \o image

\* the bucket after a successful putObject
Put(store, key, obj) ==
    [k \in DOMAIN store \cup {key} |-> IF k = key THEN obj ELSE store[k]]

(***************************************************************************)
(* exports.handler                                                         *)
(***************************************************************************)
\* the cache lookup under the original's path
LookupKeyNoSuffix == KeyCache \o filename

\* the cache key of the first waterfall step
LookupKey == KeyCache \o cachePath

\* upload with the original's path as the key
UploadKeyOriginal == KeyCache \o filename

\* the cache key upload writes
UploadKey == KeyCache \o cachePath

OriginKey == KeyOriginal \o filename

tmpResized == TempDir \o filename \o <<"_">> \o getIndexName(resizeStyle)

tmpCanvas ==
    tmpResized \o <<"_","c","a","n","v","a","s",".">> \o getFormat(resizeStyle)

tmpComposite ==
    tmpResized \o <<"_","c","o","m","p","o","s","i","t","e",".">>
        \o getFormat(resizeStyle)

\* one entry of the record of external calls
Logged(op, target, key, args, ok) ==
    Append(ops, [op |-> op, target |-> target, key |-> key, args |-> args,
                 ok |-> ok])

\* the final callback answering the failures too
RespondsToAll(type) == TRUE

\* whether the final callback hands a payload to the Lambda callback
Responds(type) ==
    type \in {"ExistCacheException", "CouldNotResizeException", "Magicked"}

\* the waterfall's final callback
Finish(result) ==
    /\ pc' = "done"
    /\ outcome' = result.type
    /\ responses' = IF Responds(result.type)
                    THEN Append(responses, result.payload)
                    ELSE responses

\* history: the runs so far that ended fresh or pass-through, with the run
\* that has just ended added
ServedSoFar ==
    IF outcome \in {"CouldNotResizeException", "Magicked"}
    THEN served \cup {[filename |-> filename, params |-> params,
                       kind |-> outcome, payload |-> responses[1]]}
    ELSE served

\* the deleted test that never fires
IsDeletedNever(response) == FALSE

\* response.Metadata.deleted
IsDeleted(response) == Truthy(response.Metadata.deleted)

\* the validate step taking every style as valid
NextCallNoValidate(rs) ==
    IF isKeepAspect(rs) THEN "resize" ELSE "identify"

\* the validate and resize steps: the external call they make next
NextCall(rs) ==
    IF ~isValid(rs) THEN "uploadFull"
    ELSE IF isKeepAspect(rs) THEN "resize"
    ELSE "identify"

Init ==
    /\ pc = "idle"
    /\ runs = 0
    /\ origin \in OriginStates
    /\ cache = <<>>
    /\ cacheBefore = <<>>
    /\ fs = <<>>
    /\ filename = <<>>
    /\ params = <<>>
    /\ resizeStyle = BlankStyle(FALSE)
    /\ cachePath = <<>>
    /\ body = <<>>
    /\ contentType = Undefined
    /\ geometry = <<>>
    /\ output = <<>>
    /\ ops = <<>>
    /\ outcome = "none"
    /\ responses = <<>>
    /\ served = {}
    /\ call = NoCall
    /\ waiting = IdleContext

\* the handler up to the start of the waterfall
Invoke(path) ==
    /\ pc \in {"idle", "done"}
    /\ runs < MaxRuns
    /\ LET request == split(path, "/")
           style == ResizeStyle(Or(At(request, 1), <<>>))
       IN /\ filename' = At(request, 0)
          /\ params' = Or(At(request, 1), <<>>)
          /\ resizeStyle' = style
          /\ cachePath' = At(request, 0) \o <<"_">> \o getIndexName(style)
    /\ runs' = runs + 1
    /\ pc' = "cacheLookup"
    /\ body' = <<>>
    /\ contentType' = Undefined
    /\ geometry' = <<>>
    /\ output' = <<>>
    /\ ops' = <<>>
    /\ outcome' = "none"
    /\ responses' = <<>>
    /\ cacheBefore' = cache
    /\ served' = ServedSoFar
    /\ UNCHANGED <<cache, origin, fs, call, waiting>>

\* waterfall step 1: the cache is searched
CacheLookup ==
    /\ pc = "cacheLookup"
    /\ IF LookupKey \in DOMAIN cache
       THEN /\ ops' = Logged("getObject", "cache", LookupKey, <<>>, TRUE)
            /\ Finish(ExistCacheException(cache[LookupKey].Body,
                                          cache[LookupKey].ContentType))
       ELSE /\ ops' = Logged("getObject", "cache", LookupKey, <<>>, FALSE)
            /\ pc' = "originFetch"
            /\ UNCHANGED <<outcome, responses>>
    /\ UNCHANGED <<filename, params, resizeStyle, cachePath, body, contentType,
                   geometry, output, cache, cacheBefore, origin, fs, runs,
                   served, call, waiting>>

\* waterfall step 2: the original is searched; steps 3 and 4 pick the next call
OriginFetch ==
    /\ pc = "originFetch"
    /\ IF OriginKey \notin DOMAIN origin
       THEN /\ ops' = Logged("getObject", "original", OriginKey, <<>>, FALSE)
            /\ Finish(NotFoundException)
            /\ UNCHANGED <<body, contentType>>
       ELSE /\ ops' = Logged("getObject", "original", OriginKey, <<>>, TRUE)
            /\ IF IsDeleted(origin[OriginKey])
               THEN /\ Finish(DeletedException)
                    /\ UNCHANGED <<body, contentType>>
               ELSE /\ body' = origin[OriginKey].Body
                    /\ contentType' = origin[OriginKey].ContentType
                    /\ pc' = NextCall(resizeStyle)
                    /\ UNCHANGED <<outcome, responses>>
    /\ UNCHANGED <<filename, params, resizeStyle, cachePath, geometry, output,
                   cache, cacheBefore, origin, fs, runs, served, call, waiting>>

\* upload(body, contentType, ...) of either store step, then its callback
Upload(result) ==
    /\ \/ /\ ops' = Logged("putObject", "cache", UploadKey,
                           <<body, contentType>>, TRUE)
          /\ cache' = Put(cache, UploadKey,
                          [Body |-> body, ContentType |-> contentType])
          /\ Finish(result)
       \/ /\ ops' = Logged("putObject", "cache", UploadKey,
                           <<body, contentType>>, FALSE)
          /\ cache' = cache
          /\ Finish(UploadFailedException)
    /\ UNCHANGED <<filename, params, resizeStyle, cachePath, body, contentType,
                   geometry, output, cacheBefore, origin, fs, runs, served,
                   call, waiting>>

\* waterfall step 3, invalid style: the full size image is stored in the cache
UploadFull ==
    /\ pc = "uploadFull"
    /\ Upload(CouldNotResizeException(body, contentType))

\* waterfall step 5: the result is stored in the cache
UploadResult ==
    /\ pc = "uploadResult"
    /\ Upload(Magicked(body, contentType))

\* resize: im.resize with the style's width and height, then its callback
Resize ==
    /\ pc = "resize"
    /\ LET args == <<getWidth(resizeStyle), getHeight(resizeStyle),
                     getFormat(resizeStyle)>>
       IN \/ /\ ops' = Logged("resize", "im", <<>>, args, FALSE)
             /\ Finish(ResizeFailedException)
             /\ UNCHANGED <<body, contentType>>
          \/ /\ ops' = Logged("resize", "im", <<>>, args, TRUE)
             /\ body' = Resized(body, args[1], args[2], args[3])
             /\ contentType' = getContentType(resizeStyle)
             /\ pc' = "uploadResult"
             /\ UNCHANGED <<outcome, responses>>
    /\ UNCHANGED <<filename, params, resizeStyle, cachePath, geometry, output,
                   cache, cacheBefore, origin, fs, runs, served, call, waiting>>

\* ConvertFails reporting the failure as one of resize
ConvertFailsAsResize ==
    /\ Finish(ResizeFailedException)
    /\ UNCHANGED <<body, contentType, geometry, output, fs>>

\* what every failing call of convert leads to
ConvertFails ==
    /\ Finish(ConvertFailedException)
    /\ UNCHANGED <<body, contentType, geometry, output, fs>>

\* convert: im.identify, then getResizeData on the size it reports
Identify ==
    /\ pc = "identify"
    /\ \/ /\ ops' = Logged("identify", "im", <<>>, <<>>, FALSE)
          /\ ConvertFails
       \/ /\ ops' = Logged("identify", "im", <<>>, <<>>, TRUE)
          /\ \E w \in SrcSizes, h \in SrcSizes :
                geometry' = getResizeData(resizeStyle, JSNumber(w), JSNumber(h))
          /\ pc' = "convertResize"
          /\ UNCHANGED <<body, contentType, output, fs, outcome, responses>>
    /\ UNCHANGED <<filename, params, resizeStyle, cachePath, cache,
                   cacheBefore, origin, runs, served, call, waiting>>

\* convert: im.resize to the computed geometry
ConvertResize ==
    /\ pc = "convertResize"
    /\ LET args == <<geometry[1], geometry[2], getFormat(resizeStyle)>>
       IN \/ /\ ops' = Logged("resize", "im", <<>>, args, FALSE)
             /\ ConvertFails
          \/ /\ ops' = Logged("resize", "im", <<>>, args, TRUE)
             /\ output' = Resized(body, args[1], args[2], args[3])
             /\ pc' = "writeFile"
             /\ UNCHANGED <<body, contentType, geometry, fs, outcome,
                            responses>>
    /\ UNCHANGED <<filename, params, resizeStyle, cachePath, cache,
                   cacheBefore, origin, runs, served, call, waiting>>

\* convert: fs.writeFile of the resized image
WriteResized ==
    /\ pc = "writeFile"
    /\ \/ /\ ops' = Logged("writeFile", "fs", tmpResized, <<output>>, FALSE)
          /\ ConvertFails
       \/ /\ ops' = Logged("writeFile", "fs", tmpResized, <<output>>, TRUE)
          /\ fs' = Put(fs, tmpResized, output)
          /\ pc' = "canvas"
          /\ UNCHANGED <<body, contentType, geometry, output, outcome,
                         responses>>
    /\ UNCHANGED <<filename, params, resizeStyle, cachePath, cache,
                   cacheBefore, origin, runs, served, call, waiting>>

\* convert: im.convert creating the plain rectangle
MakeCanvas ==
    /\ pc = "canvas"
    /\ LET args == <<JSToString(getWidth(resizeStyle)) \o <<"x">>
                        \o JSToString(getHeight(resizeStyle)),
                     <<"x", "c", ":">> \o getColor(resizeStyle)>>
       IN \/ /\ ops' = Logged("canvas", "im", tmpCanvas, args, FALSE)
             /\ ConvertFails
          \/ /\ ops' = Logged("canvas", "im", tmpCanvas, args, TRUE)
             /\ fs' = Put(fs, tmpCanvas, CanvasBody)
             /\ pc' = "composite"
             /\ UNCHANGED <<body, contentType, geometry, output, outcome,
                            responses>>
    /\ UNCHANGED <<filename, params, resizeStyle, cachePath, cache,
                   cacheBefore, origin, runs, served, call, waiting>>

\* convert: im.convert laying the resized image over the rectangle
Composite ==
    /\ pc = "composite"
    /\ LET args == <<tmpCanvas, tmpResized>>
       IN \/ /\ ops' = Logged("composite", "im", tmpComposite, args, FALSE)
             /\ ConvertFails
          \/ /\ ops' = Logged("composite", "im", tmpComposite, args, TRUE)
             /\ fs' = Put(fs, tmpComposite,
                          Composed(fs[tmpCanvas], fs[tmpResized]))
             /\ pc' = "readFile"
             /\ UNCHANGED <<body, contentType, geometry, output, outcome,
                            responses>>
    /\ UNCHANGED <<filename, params, resizeStyle, cachePath, cache,
                   cacheBefore, origin, runs, served, call, waiting>>

\* convert: fs.readFile of the composite, then convert's callback
ReadComposite ==
    /\ pc = "readFile"
    /\ \/ /\ ops' = Logged("readFile", "fs", tmpComposite, <<>>, FALSE)
          /\ ConvertFails
       \/ /\ ops' = Logged("readFile", "fs", tmpComposite, <<>>, TRUE)
          /\ body' = fs[tmpComposite]
          /\ contentType' = getContentType(resizeStyle)
          /\ pc' = "uploadResult"
          /\ UNCHANGED <<geometry, output, fs, outcome, responses>>
    /\ UNCHANGED <<filename, params, resizeStyle, cachePath, cache,
                   cacheBefore, origin, runs, served, call, waiting>>

\* the steps an invocation takes once started
Step ==
    \/ CacheLookup
    \/ OriginFetch
    \/ UploadFull
    \/ Resize
    \/ Identify
    \/ ConvertResize
    \/ WriteResized
    \/ MakeCanvas
    \/ Composite
    \/ ReadComposite
    \/ UploadResult

Next ==
    \/ \E path \in Paths : Invoke(path)
    \/ Step

Spec == Init /\ [][Next]_vars

\* every external call eventually calls back
LiveSpec == Init /\ [][Next]_vars /\ WF_vars(Step)

(***************************************************************************)
(* ConcSpec: two invocations of the handler in one process.  Each has its  *)
(* own closure state; the buckets and the scratch directory are shared.    *)
(* The variables above hold the closure of the invocation whose callback   *)
(* runs, waiting holds the closure of the other one, and the event loop    *)
(* may run either invocation's pending callback next.                      *)
(***************************************************************************)
\* the closure state of the invocation whose callback runs
Context ==
    [filename |-> filename, params |-> params, resizeStyle |-> resizeStyle,
     cachePath |-> cachePath, pc |-> pc, body |-> body,
     contentType |-> contentType, geometry |-> geometry, output |-> output,
     ops |-> ops, outcome |-> outcome, responses |-> responses,
     cacheBefore |-> cacheBefore]

\* requests of the concurrent invocations: image a with an invalid token, a
\* keep-aspect token and two rectangle tokens that share a cache key
ConcTokens ==
    {<<>>,
     Join(<<Sfit, <<"2", "x">> >>),
     Join(<<Sfit, <<"2", "x", "3">> >>),
     Join(<<<<"F","I","T">>, <<"2", "x", "3">> >>)}

ConcPaths == {<<"a">> \o <<"/">> \o t : t \in ConcTokens}

ConcOrigin ==
    [k \in {KeyOriginal \o <<"a">>} |->
        [Body |-> OriginBody, ContentType |-> OriginType,
         Metadata |-> [deleted |-> Undefined]]]

ConcInit ==
    /\ Init
    /\ origin = ConcOrigin

\* the event loop turns to the other invocation: its pending callback runs
\* next, or, when it has not started, the handler may be invoked for it
Yield ==
    /\ pc \notin {"idle", "done"}
    /\ waiting.pc # "done"
    /\ waiting.pc = "idle" => runs < MaxRuns
    /\ waiting' = Context
    /\ filename' = waiting.filename
    /\ params' = waiting.params
    /\ resizeStyle' = waiting.resizeStyle
    /\ cachePath' = waiting.cachePath
    /\ pc' = waiting.pc
    /\ body' = waiting.body
    /\ contentType' = waiting.contentType
    /\ geometry' = waiting.geometry
    /\ output' = waiting.output
    /\ ops' = waiting.ops
    /\ outcome' = waiting.outcome
    /\ responses' = waiting.responses
    /\ cacheBefore' = waiting.cacheBefore
    /\ UNCHANGED <<cache, origin, fs, served, runs, call>>

\* the invocation whose callback ran last has ended: the other one goes on
Resume ==
    /\ pc = "done"
    /\ waiting.pc \notin {"idle", "done"}
    /\ waiting' = Context
    /\ filename' = waiting.filename
    /\ params' = waiting.params
    /\ resizeStyle' = waiting.resizeStyle
    /\ cachePath' = waiting.cachePath
    /\ pc' = waiting.pc
    /\ body' = waiting.body
    /\ contentType' = waiting.contentType
    /\ geometry' = waiting.geometry
    /\ output' = waiting.output
    /\ ops' = waiting.ops
    /\ outcome' = waiting.outcome
    /\ responses' = waiting.responses
    /\ cacheBefore' = waiting.cacheBefore
    /\ UNCHANGED <<cache, origin, fs, served, runs, call>>

ConcNext ==
    \/ \E path \in ConcPaths : Invoke(path)
    \/ Step
    \/ Yield
    \/ Resume

ConcSpec == ConcInit /\ [][ConcNext]_vars

(***************************************************************************)
(* TokenSpec: runs of the handler for one live image and a wider range of  *)
(* style tokens: invalid, keep-aspect on either axis, a literal 0, a       *)
(* format in capitals, an empty format segment.                            *)
(***************************************************************************)
WideTokens ==
    {<<>>,
     Join(<<Sfit, <<"2", "x">> >>),
     Join(<<Sfill, <<"x", "3">>, Sgif>>),
     Join(<<Sfit, <<"0", "x", "3">> >>),
     Join(<<Sfill, <<"2", "x", "3">>, <<"P","N","G">>, <<"f","f","f">> >>),
     Join(<<Sfit, <<"2", "x", "3">>, <<>>, <<"f","f","f">> >>)}

TokenPaths == {<<"a">> \o <<"/">> \o t : t \in WideTokens}

TokenNext ==
    \/ \E path \in TokenPaths : Invoke(path)
    \/ Step

TokenSpec == ConcInit /\ [][TokenNext]_vars

(***************************************************************************)
(* Properties of the pipeline, checked under Spec and LiveSpec             *)
(***************************************************************************)
B64Index(c) == (CHOOSE i \in 1..64 : B64Chars[i] = c) - 1

RECURSIVE FromBase64(_)
\* the bytes a base64 string stands for
FromBase64(s) ==
    IF Len(s) < 4 THEN <<>>
    ELSE LET a == B64Index(s[1])
             b == B64Index(s[2])
         IN IF s[3] = "=" THEN <<(a * 4) + (b \div 16)>>
            ELSE IF s[4] = "="
            THEN <<(a * 4) + (b \div 16),
                   ((b % 16) * 16) + (B64Index(s[3]) \div 4)>>
            ELSE <<(a * 4) + (b \div 16),
                   ((b % 16) * 16) + (B64Index(s[3]) \div 4),
                   ((B64Index(s[3]) % 4) * 64) + B64Index(s[4])>>
                 \o FromBase64(SubSeq(s, 5, Len(s)))

TransformerOps == {"identify", "resize", "canvas", "composite"}

UsedTransformer == \E i \in 1..Len(ops) : ops[i].op \in TransformerOps

IssuedPut == \E i \in 1..Len(ops) : ops[i].op = "putObject"

\* the first call was the cache get and it found the object
CacheGetSucceeded ==
    /\ Len(ops) >= 1
    /\ ops[1].op = "getObject"
    /\ ops[1].target = "cache"
    /\ ops[1].ok

\* the cache get missed and the origin get returned object o
OriginFound ==
    /\ Len(ops) >= 2
    /\ ops[1].op = "getObject" /\ ops[1].target = "cache" /\ ~ops[1].ok
    /\ ops[2].op = "getObject" /\ ops[2].target = "original" /\ ops[2].ok

FlagTrue == <<"t","r","u","e">>

\* C1: when the cache get for filename + '_' + suffix succeeds, the run ends
\* with the cache hit, answering the cached bytes and content type, and it
\* makes no other external call: no origin get, no ImageMagick call, no put.
C1_CacheHit ==
    CacheGetSucceeded =>
        /\ ops[1].key = KeyCache \o filename \o <<"_">>
                            \o getIndexName(resizeStyle)
        /\ pc = "done"
        /\ outcome = "ExistCacheException"
        /\ Len(ops) = 1
        /\ cache = cacheBefore
        /\ Len(responses) = 1
        /\ FromBase64(responses[1].body) = cacheBefore[ops[1].key].Body
        /\ responses[1].headers.ContentType
              = cacheBefore[ops[1].key].ContentType

C1_Witness ==
    /\ CacheGetSucceeded
    /\ pc = "done"
    /\ Len(responses) = 1
    /\ FromBase64(responses[1].body) = <<0, 137, 0, 0, 0, 3>>
    /\ responses[1].headers.ContentType = Simage \o Spng

\* the earlier runs for the current request that ended fresh or pass-through
EarlierServed == {e \in served : e.filename = filename /\ e.params = params}

\* C2: once a run for (filename, token) ended with a fresh result or a
\* pass-through, every later run for the same (filename, token) ends with a
\* cache hit answering the same bytes and content type, and calls no
\* ImageMagick operation.
C2_RepeatIsCacheHit ==
    \A e \in EarlierServed :
        /\ ~UsedTransformer
        /\ pc = "done" =>
              /\ outcome = "ExistCacheException"
              /\ responses = <<e.payload>>

C2_Witness ==
    /\ pc = "done"
    /\ outcome = "ExistCacheException"
    /\ \E e \in EarlierServed :
          e.kind = "Magicked" /\ responses = <<e.payload>>

\* C3: when the cache misses and the origin object carries the deleted flag,
\* the run ends with Deleted, leaves the cache as it was, issues no put and
\* calls no ImageMagick operation.
C3_DeletedLeavesCache ==
    (OriginFound /\ origin[ops[2].key].Metadata.deleted = FlagTrue) =>
        /\ pc = "done"
        /\ outcome = "DeletedException"
        /\ cache = cacheBefore
        /\ ~IssuedPut
        /\ ~UsedTransformer

C3_Witness ==
    /\ OriginFound
    /\ origin[ops[2].key].Metadata.deleted = FlagTrue
    /\ outcome = "DeletedException"
    /\ DOMAIN cache # {}

\* the run of an invalid style found a live original
InvalidStyleOnLiveOrigin ==
    /\ OriginFound
    /\ ~isValid(resizeStyle)
    /\ origin[ops[2].key].Metadata.deleted # FlagTrue

\* the third call is the put of the original under filename + '_full'
PutsOriginalAsFull ==
    /\ Len(ops) = 3
    /\ ops[3].op = "putObject"
    /\ ops[3].target = "cache"
    /\ ops[3].key = KeyCache \o filename \o <<"_">> \o Sfull
    /\ ops[3].args = <<origin[ops[2].key].Body, origin[ops[2].key].ContentType>>

\* the single response carries the original's bytes and content type
AnswersOriginal ==
    /\ Len(responses) = 1
    /\ FromBase64(responses[1].body) = origin[ops[2].key].Body
    /\ responses[1].headers.ContentType = origin[ops[2].key].ContentType

\* C4 as stated: for an invalid style token, a cache miss and a live original,
\* the run puts the original under filename + '_full', calls no ImageMagick
\* operation and ends with the pass-through answering the original unmodified.
C4_AlwaysPassThrough ==
    (InvalidStyleOnLiveOrigin /\ pc = "done") =>
        /\ PutsOriginalAsFull
        /\ ~UsedTransformer
        /\ outcome = "CouldNotResizeException"
        /\ AnswersOriginal

\* C4 amended: for an invalid style token, a cache miss and a live original,
\* the run calls no ImageMagick operation and issues the put of the original
\* under filename + '_full'; when that put succeeds it ends with the
\* pass-through answering the original unmodified, and when the put fails it
\* ends with UploadFailed, no response and the cache unchanged.
C4_PassThroughIfStored ==
    InvalidStyleOnLiveOrigin =>
        /\ ~UsedTransformer
        /\ pc \in {"uploadFull", "done"}
        /\ pc = "done" =>
              /\ PutsOriginalAsFull
              /\ IF ops[3].ok
                 THEN /\ outcome = "CouldNotResizeException"
                      /\ AnswersOriginal
                      /\ cache[ops[3].key] =
                            [Body |-> origin[ops[2].key].Body,
                             ContentType |-> origin[ops[2].key].ContentType]
                 ELSE /\ outcome = "UploadFailedException"
                      /\ responses = <<>>
                      /\ cache = cacheBefore

C4_Witness ==
    /\ InvalidStyleOnLiveOrigin
    /\ pc = "done"
    /\ PutsOriginalAsFull
    /\ ops[3].ok
    /\ outcome = "CouldNotResizeException"
    /\ AnswersOriginal

SuccessKinds == {"ExistCacheException", "CouldNotResizeException", "Magicked"}

FailureKinds ==
    {"NotFoundException", "DeletedException", "UploadFailedException",
     "ResizeFailedException", "ConvertFailedException"}

\* a status-200 envelope whose body is base64 text
IsEnvelope(payload) ==
    /\ payload.statusCode = 200
    /\ payload.isBase64Encoded
    /\ Base64(FromBase64(payload.body)) = payload.body

\* C5: every run, its external calls all calling back, reaches one of the
\* eight terminal outcomes; the Lambda callback is invoked exactly once, with
\* a status-200 base64 envelope, for the three successes, and never for the
\* five failures nor before the run has ended.
C5_OneOutcome ==
    /\ [](pc = "done" =>
            /\ outcome \in SuccessKinds \cup FailureKinds
            /\ outcome \in SuccessKinds =>
                  (Len(responses) = 1 /\ IsEnvelope(responses[1]))
            /\ outcome \in FailureKinds => responses = <<>>)
    /\ [](pc # "done" => (outcome = "none" /\ responses = <<>>))
    /\ [](pc \notin {"idle", "done"} => <>(pc = "done"))

C5_Witness ==
    /\ pc = "done"
    /\ outcome = "ConvertFailedException"
    /\ responses = <<>>
    /\ Len(ops) = 8

ConvertOps ==
    {"identify", "resize", "writeFile", "canvas", "composite", "readFile"}

\* the failure kind the claim gives to a failed call
FailureKindOf(o) ==
    IF o.op = "getObject" THEN "NotFoundException"
    ELSE IF o.op = "putObject" THEN "UploadFailedException"
    ELSE IF o.op = "resize" /\ isKeepAspect(resizeStyle)
    THEN "ResizeFailedException"
    ELSE "ConvertFailedException"

\* C13: an external call after the cache lookup that fails is the last call
\* of its run and the run ends, with no response, in the failure kind of that
\* call: NotFound for the origin get, ResizeFailed for the resize of a
\* keep-aspect style, ConvertFailed for any step of convert, UploadFailed for
\* the cache put; a run ended in NotFound, ResizeFailed or ConvertFailed has
\* issued no cache put.
C13_FailureKinds ==
    /\ \A i \in 2..Len(ops) :
          ~ops[i].ok =>
              /\ i = Len(ops)
              /\ pc = "done"
              /\ responses = <<>>
              /\ outcome = FailureKindOf(ops[i])
              /\ ops[i].op \in ConvertOps \ {"resize"} =>
                    ~isKeepAspect(resizeStyle)
    /\ outcome \in {"NotFoundException", "ResizeFailedException",
                     "ConvertFailedException"} => ~IssuedPut

C13_Witness ==
    /\ pc = "done"
    /\ Len(ops) = 6
    /\ ops[6].op = "canvas"
    /\ ~ops[6].ok
    /\ outcome = "ConvertFailedException"
    /\ DOMAIN fs # {}

\* the calls of the run so far, told apart by operation and target
OpKinds == {<<ops[i].op, ops[i].target>> : i \in 1..Len(ops)}

\* C14: a run makes each external call at most once (the cache get first,
\* then at most one origin get, one identify, resize, canvas and composite
\* call, one scratch write and read, and one put); it issues no put to the
\* origin bucket and the origin bucket never changes; its put, when issued,
\* goes to the cache bucket under the key of the run's cache lookup.
C14_OnceEach ==
    /\ [](/\ Cardinality(OpKinds) = Len(ops)
          /\ Len(ops) >= 1 =>
                (ops[1].op = "getObject" /\ ops[1].target = "cache")
          /\ \A i \in 1..Len(ops) :
                /\ ops[i].target = "original" => ops[i].op = "getObject"
                /\ ops[i].op = "putObject" =>
                      /\ ops[i].target = "cache"
                      /\ ops[i].key = ops[1].key
                      /\ i = Len(ops))
    /\ [][origin' = origin]_vars

C14_Witness ==
    /\ pc = "done"
    /\ outcome = "Magicked"
    /\ Len(ops) = 9
    /\ ops[9].op = "putObject"
    /\ ops[9].key = ops[1].key
    /\ ops[9].key \in DOMAIN cache

(***************************************************************************)
(* Properties of concurrent invocations, checked under ConcSpec            *)
(***************************************************************************)
\* the scratch files an invocation has written, by its record of calls
ScratchWritten(log) ==
    {log[i].key : i \in {j \in 1..Len(log) :
                            /\ log[j].op \in {"writeFile", "canvas", "composite"}
                            /\ log[j].ok}}

InFlight(p) == p \notin {"idle", "done"}

\* convert has called back with the composite it read
ConvertDone ==
    \E i \in 1..Len(ops) : ops[i].op = "readFile" /\ ops[i].ok

\* C12: two invocations in flight have written no scratch file in common,
\* and the image convert hands on is the one the invocation makes when it
\* runs alone: its own resized image laid over its own canvas.
C12_NoSharedScratch ==
    /\ (InFlight(pc) /\ InFlight(waiting.pc)) =>
            ScratchWritten(ops) \cap ScratchWritten(waiting.ops) = {}
    /\ (ConvertDone /\ pc = "uploadResult") =>
            body = Composed(CanvasBody, output)

\* the run for 'fit.2x3' hands on the image resized for 'FIT.2x3', which was
\* resized to another geometry, and stores it under the key the two share
C12_Crosstalk ==
    /\ params = Join(<<Sfit, <<"2", "x", "3">> >>)
    /\ waiting.params = Join(<<<<"F","I","T">>, <<"2", "x", "3">> >>)
    /\ geometry = <<JSNumber(0), JSNumber(2)>>
    /\ waiting.geometry = <<JSNumber(1), JSNumber(0)>>
    /\ output # waiting.output
    /\ outcome = "Magicked"
    /\ cache[UploadKey].Body = Composed(CanvasBody, waiting.output)

(***************************************************************************)
(* Properties of ResizeStyle, checked under StyleSpec                      *)
(***************************************************************************)
\* the segments of the token the object was built from
Segs == split(params, separator)

\* the token's width and height literals, when its canvas segment matches
WidthLiteral == At(split(At(Segs, 1), "x"), 0)
HeightLiteral == At(split(At(Segs, 1), "x"), 1)

\* the token passes the cover and canvas tests of the grammar
HasCoverAndCanvas == TestCover(At(Segs, 0)) /\ TestCanvas(At(Segs, 1))

ExceedsMax == DigitsValue(WidthLiteral) > 2048 \/ DigitsValue(HeightLiteral) > 2048

\* every spelling of s that differs from it in letter case only
CaseForms(s) ==
    {[i \in 1..Len(s) |-> IF i \in U THEN ToUpperChar(s[i])
                          ELSE ToLowerChar(s[i])] : U \in SUBSET (1..Len(s))}

\* the tokens that differ from t in the case of cover and format only
CaseVariants(t) ==
    LET arr == split(t, separator) IN
    {Join([i \in 1..Len(arr) |->
            IF i = 1 THEN c ELSE IF i = 3 THEN f ELSE arr[i]]) :
        c \in CaseForms(arr[1]),
        f \in CaseForms(IF Len(arr) >= 3 THEN arr[3] ELSE <<>>)}

\* C6: a token with a fit/fill cover and a WxH canvas is invalid, with cache
\* key suffix 'full', when its width or height exceeds 2048, and valid when
\* both are at most 2048.
C6_MaxDimension ==
    HasCoverAndCanvas =>
        /\ call.method = "isValid" => (call.ret = ~ExceedsMax)
        /\ (call.method = "getIndexName" /\ ExceedsMax) => call.ret = Sfull

C6_Witness ==
    /\ HasCoverAndCanvas
    /\ DigitsValue(HeightLiteral) > 2048
    /\ DigitsValue(WidthLiteral) <= 2048
    /\ call.method = "getIndexName"
    /\ call.ret = Sfull

\* C7: tokens that differ only in the letter case of the cover and format
\* segments get the same cache key suffix.
C7_CaseInsensitiveSuffix ==
    call.method = "getIndexName" =>
        \A t \in CaseVariants(params) :
            getIndexName(ResizeStyle(t)) = call.ret

C7_Witness ==
    /\ call.method = "getIndexName"
    /\ isValid(resizeStyle)
    /\ At(Segs, 0) # toLowerCase(At(Segs, 0))
    /\ Len(Segs) >= 3
    /\ At(Segs, 2) # toLowerCase(At(Segs, 2))
    /\ call.ret = toLowerCase(call.ret)

\* C8: parsing the cache key suffix of a valid token gives a valid spec with
\* the same suffix, and the suffix carries the token's width and height
\* literals unchanged ('0' and '' stay distinct).
C8_SuffixRoundTrip ==
    (call.method = "getIndexName" /\ isValid(resizeStyle)) =>
        /\ isValid(ResizeStyle(call.ret))
        /\ getIndexName(ResizeStyle(call.ret)) = call.ret
        /\ At(split(call.ret, separator), 1) = At(Segs, 1)

C8_Witness ==
    /\ call.method = "getIndexName"
    /\ isValid(resizeStyle)
    /\ WidthLiteral = <<>>
    /\ HeightLiteral = <<"0">>
    /\ At(split(call.ret, separator), 1) = <<"x", "0">>

\* C9: the format of a valid token is one of jpg, png, gif, and it is jpg
\* when the format segment is absent, empty or not one of jpg|png|gif.
C9_FormatDefaultsToJpg ==
    (call.method = "getFormat" /\ isValid(resizeStyle)) =>
        /\ toLowerCase(call.ret) \in {Sjpg, Spng, Sgif}
        /\ toLowerCase(JSToString(At(Segs, 2))) \notin {Sjpg, Spng, Sgif}
              => call.ret = Sjpg

\* C10: for a valid spec whose cover is 'fit' in any letter case,
\* getResizeData returns (0, min(h, targetHeight)) for a portrait source and
\* (min(w, targetWidth), 0) otherwise.
Min(a, b) == IF a < b THEN a ELSE b

C10_FitGeometry ==
    (call.method = "getResizeData" /\ toLowerCase(At(Segs, 0)) = Sfit) =>
        LET w == call.args[1]
            h == call.args[2]
            tw == DigitsValue(WidthLiteral)
            th == DigitsValue(HeightLiteral)
        IN <<ToNumber(call.ret[1]), ToNumber(call.ret[2])>> =
              IF w < h THEN <<0, Min(h, th)>> ELSE <<Min(w, tw), 0>>

\* the source size and the numbers of the token's literals, for the claims
\* about getResizeData
SrcW == call.args[1]
SrcH == call.args[2]
TargetW == DigitsValue(WidthLiteral)
TargetH == DigitsValue(HeightLiteral)
RetW == ToNumber(call.ret[1])
RetH == ToNumber(call.ret[2])

\* C11: for a valid spec whose cover is 'fill' in any letter case,
\* getResizeData returns (min(w, targetWidth), 0) for a portrait source and
\* (0, min(h, targetHeight)) otherwise; the constrained value exceeds neither
\* the source nor the target on its axis and the other component is 0.
C11_FillGeometry ==
    (call.method = "getResizeData" /\ toLowerCase(At(Segs, 0)) = Sfill) =>
        /\ <<RetW, RetH>> =
              IF SrcW < SrcH THEN <<Min(SrcW, TargetW), 0>>
              ELSE <<0, Min(SrcH, TargetH)>>
        /\ SrcW < SrcH => (RetW <= SrcW /\ RetW <= TargetW /\ RetH = 0)
        /\ SrcW >= SrcH => (RetH <= SrcH /\ RetH <= TargetH /\ RetW = 0)

C11_Witness ==
    /\ call.method = "getResizeData"
    /\ At(Segs, 0) = <<"F","i","l","l">>
    /\ WidthLiteral = <<"3">>
    /\ call.args = <<1, 2>>
    /\ call.ret = <<JSNumber(1), JSNumber(0)>>

\* n / d rounded to the nearest integer
Round(n, d) == ((2 * n) + d) \div (2 * d)

\* the size of the image resize makes of a SrcW x SrcH image for the pair
\* getResizeData returned: the constrained axis as given, the axis given as
\* 0 derived from the source's aspect ratio
ImageW == IF RetW # 0 THEN RetW ELSE Round(SrcW * RetH, SrcH)
ImageH == IF RetH # 0 THEN RetH ELSE Round(SrcH * RetW, SrcW)

\* both target dimensions are given and at least 1
BothTargets ==
    /\ WidthLiteral # <<>> /\ HeightLiteral # <<>>
    /\ TargetW >= 1 /\ TargetH >= 1

\* C16: in FILL mode with both target dimensions given, the resized image
\* is at most targetWidth wide and at most targetHeight high, so the
\* composite on the targetWidth x targetHeight canvas clips nothing.
C16_FillClipsNothing ==
    (/\ call.method = "getResizeData"
     /\ toLowerCase(At(Segs, 0)) = Sfill
     /\ BothTargets) =>
        (ImageW <= TargetW /\ ImageH <= TargetH)

\* C17: in FIT mode with both target dimensions given, the resized image is
\* at most targetWidth wide and at most targetHeight high, and no larger
\* than the source on either axis.
C17_FitContained ==
    (/\ call.method = "getResizeData"
     /\ toLowerCase(At(Segs, 0)) = Sfit
     /\ BothTargets) =>
        /\ ImageW <= TargetW /\ ImageH <= TargetH
        /\ ImageW <= SrcW /\ ImageH <= SrcH

\* a pair of JavaScript values as a pair of numbers
Numbers(pair) == <<ToNumber(pair[1]), ToNumber(pair[2])>>

\* what the pipeline asks of ImageMagick and writes for a style and a
\* w x h source: the resize pair, the canvas size and colour, the format,
\* and the content type
Transformation(rs, w, h) ==
    [resize |-> Numbers(getResizeData(rs, JSNumber(w), JSNumber(h))),
     canvas |-> Numbers(<<getWidth(rs), getHeight(rs)>>),
     color |-> getColor(rs),
     format |-> toLowerCase(getFormat(rs)),
     contentType |-> getContentType(rs)]

\* C18: valid tokens with the same cache key suffix ask for the same
\* transformation of any source (same resize pair, canvas size and colour
\* and format) and write the same content type.
C18_KeyDeterminesTransformation ==
    call.method = "getResizeData" =>
        \A t \in CaseVariants(params) :
            (/\ isValid(ResizeStyle(t))
             /\ getIndexName(ResizeStyle(t)) = getIndexName(resizeStyle)) =>
                Transformation(ResizeStyle(t), SrcW, SrcH)
                    = Transformation(resizeStyle, SrcW, SrcH)

(***************************************************************************)
(* Properties of the pipeline that read the token, checked under TokenSpec *)
(***************************************************************************)
\* the width literal or the height literal of the token is empty
LiteralAbsent == WidthLiteral = <<>> \/ HeightLiteral = <<>>

OpNames == [i \in 1..Len(ops) |-> ops[i].op]

IsPrefix(a, b) == Len(a) <= Len(b) /\ a = SubSeq(b, 1, Len(a))

KeepAspectCalls == <<"getObject", "getObject", "resize", "putObject">>

ConvertCalls ==
    <<"getObject", "getObject", "identify", "resize", "writeFile", "canvas",
      "composite", "readFile", "putObject">>

\* C15: for a valid spec isKeepAspect() is true exactly when the token's
\* width or height literal is empty.  When it is true the run calls resize
\* with the spec's width and height, 0 for the absent one, then the put, and
\* never identify, canvas or composite.  When it is false the run calls
\* identify, resize with the pair getResizeData returns for the identified
\* size, canvas with targetWidth x targetHeight and composite, in that
\* order, before the put.
C15_KeepAspectPath ==
    isValid(resizeStyle) =>
        /\ isKeepAspect(resizeStyle) <=> LiteralAbsent
        /\ LiteralAbsent =>
              /\ IsPrefix(OpNames, KeepAspectCalls)
              /\ Len(ops) >= 3 =>
                    /\ ToNumber(ops[3].args[1]) = DigitsValue(WidthLiteral)
                    /\ ToNumber(ops[3].args[2]) = DigitsValue(HeightLiteral)
                    /\ WidthLiteral = <<>> => ops[3].args[1] = JSNumber(0)
                    /\ HeightLiteral = <<>> => ops[3].args[2] = JSNumber(0)
        /\ ~LiteralAbsent =>
              /\ IsPrefix(OpNames, ConvertCalls)
              /\ Len(ops) >= 4 =>
                    \E w \in SrcSizes, h \in SrcSizes :
                        <<ops[4].args[1], ops[4].args[2]>> =
                            getResizeData(resizeStyle, JSNumber(w), JSNumber(h))
              /\ Len(ops) >= 6 =>
                    ops[6].args[1] = WidthLiteral \o <<"x">> \o HeightLiteral

C15_Witness ==
    /\ isValid(resizeStyle)
    /\ WidthLiteral = <<"0">>
    /\ pc = "done"
    /\ outcome = "Magicked"
    /\ OpNames = ConvertCalls
    /\ ops[6].args[1] = <<"0", "x", "3">>

\* C19: in a run of a valid spec that is not keep-aspect, the pair passed to
\* resize has a constrained component of at least 1 (it is never (0, 0)),
\* and the canvas asked for is at least 1 wide and 1 high.
C19_PositiveGeometry ==
    (isValid(resizeStyle) /\ ~isKeepAspect(resizeStyle)) =>
        /\ Len(ops) >= 4 =>
              (ToNumber(ops[4].args[1]) >= 1 \/ ToNumber(ops[4].args[2]) >= 1)
        /\ Len(ops) >= 6 =>
              /\ DigitsValue(At(split(ops[6].args[1], "x"), 0)) >= 1
              /\ DigitsValue(At(split(ops[6].args[1], "x"), 1)) >= 1

Sjpeg == <<"j","p","e","g">>

\* C20: the content type of a fresh result, in the response and in the cache
\* entry the run wrote, is 'image/jpeg' when the spec's format is jpg and
\* 'image/' followed by the lowercase format name otherwise: one of
\* 'image/jpeg', 'image/png', 'image/gif'.
C20_ContentTypes ==
    outcome = "Magicked" =>
        LET f == toLowerCase(getFormat(resizeStyle))
            expected == IF f = Sjpg THEN Simage \o Sjpeg ELSE Simage \o f
        IN /\ responses[1].headers.ContentType = expected
           /\ cache[UploadKey].ContentType = expected
           /\ expected \in {Simage \o Sjpeg, Simage \o Spng, Simage \o Sgif}

====
